---- MODULE Spec2Model ----
(***************************************************************************)
(* Model of src/src/emails/emails.controller.ts: the json2typescript       *)
(* schema classes (Header ... Root), the decoding that                    *)
(* JsonConvert.deserializeObject performs on them under the settings of a  *)
(* freshly constructed JsonConvert (line 387), and the summary that        *)
(* EmailsController.handleEmail derives from Records[0].                   *)
(*                                                                         *)
(* JavaScript values are tagged records:                                   *)
(*   [t |-> "string",  s |-> <<characters>>]                               *)
(*   [t |-> "number",  n |-> integer]                                      *)
(*   [t |-> "boolean", b |-> BOOLEAN]                                      *)
(*   [t |-> "null"]    [t |-> "undefined"]                                 *)
(*   [t |-> "object",  f |-> function from property names to values]       *)
(*   [t |-> "array",   e |-> sequence of values]                           *)
(* Text is a sequence of one-character strings so that split('@') and the  *)
(* date parse are computed character by character.                         *)
(***************************************************************************)
EXTENDS Integers, Sequences, FiniteSets, TLC

VARIABLES body, pc, root, result

vars == <<body, pc, root, result>>

----------------------------------------------------------------------------
(* JavaScript values *)

Str(chars) == [t |-> "string", s |-> chars]
Num(i) == [t |-> "number", n |-> i]
Bool(x) == [t |-> "boolean", b |-> x]
Null == [t |-> "null"]
Undefined == [t |-> "undefined"]
Obj(fields) == [t |-> "object", f |-> fields]
Arr(elems) == [t |-> "array", e |-> elems]

EmptyFields == [k \in {} |-> Null]

\* value[key] on a mapping: undefined when the key is not there
GetProp(value, key) ==
    IF key \in DOMAIN value.f THEN value.f[key] ELSE Undefined

\* value[key] = v on a mapping
SetProp(value, key, v) ==
    Obj([k \in (DOMAIN value.f) \cup {key} |-> IF k = key THEN v ELSE value.f[k]])

----------------------------------------------------------------------------
(* The schema: one definition per @JsonObject class; each entry is one     *)
(* @JsonProperty(name, expectedJsonType) with the property's initializer.  *)

PString == [k |-> "primitive", p |-> "string"]
PNumber == [k |-> "primitive", p |-> "number"]
PBoolean == [k |-> "primitive", p |-> "boolean"]
Class(name) == [k |-> "class", c |-> name]
ArrayOf(type) == [k |-> "array", of |-> type]

JsonProperty(name, type) == [name |-> name, type |-> type]

Header ==
    << JsonProperty("name", PString),
       JsonProperty("value", PString) >>

CommonHeaders ==
    << JsonProperty("returnPath", PString),
       JsonProperty("from", ArrayOf(PString)),
       JsonProperty("date", PString),
       JsonProperty("to", ArrayOf(PString)),
       JsonProperty("messageId", PString),
       JsonProperty("subject", PString) >>

Mail ==
    << JsonProperty("timestamp", PString),
       JsonProperty("source", PString),
       JsonProperty("messageId", PString),
       JsonProperty("destination", ArrayOf(PString)),
       JsonProperty("headersTruncated", PBoolean),
       JsonProperty("headers", ArrayOf(Class("Header"))),
       JsonProperty("commonHeaders", Class("CommonHeaders")) >>

Action ==
    << JsonProperty("type", PString),
       JsonProperty("topicArn", PString) >>

Verdict ==
    << JsonProperty("status", PString) >>

Receipt ==
    << JsonProperty("timestamp", PString),
       JsonProperty("processingTimeMillis", PNumber),
       JsonProperty("recipients", ArrayOf(PString)),
       JsonProperty("spamVerdict", Class("Verdict")),
       JsonProperty("virusVerdict", Class("Verdict")),
       JsonProperty("spfVerdict", Class("Verdict")),
       JsonProperty("dkimVerdict", Class("Verdict")),
       JsonProperty("dmarcVerdict", Class("Verdict")),
       JsonProperty("dmarcPolicy", PString),
       JsonProperty("action", Class("Action")) >>

Ses ==
    << JsonProperty("receipt", Class("Receipt")),
       JsonProperty("mail", Class("Mail")) >>

Record ==
    << JsonProperty("eventVersion", PString),
       JsonProperty("ses", Class("Ses")),
       JsonProperty("eventSource", PString) >>

Root ==
    << JsonProperty("Records", ArrayOf(Class("Record"))) >>

\* the decorated properties of a class, in declaration order
PropertiesOf(cls) ==
    CASE cls = "Header" -> Header
      [] cls = "CommonHeaders" -> CommonHeaders
      [] cls = "Mail" -> Mail
      [] cls = "Action" -> Action
      [] cls = "Verdict" -> Verdict
      [] cls = "Receipt" -> Receipt
      [] cls = "Ses" -> Ses
      [] cls = "Record" -> Record
      [] cls = "Root" -> Root

\* new cls(): every property holds its initializer ('' / 0 / false / [] /
\* new T()).
RECURSIVE NewInstance(_)
Initializer(type) ==
    CASE type.k = "primitive" /\ type.p = "string" -> Str(<<>>)
      [] type.k = "primitive" /\ type.p = "number" -> Num(0)
      [] type.k = "primitive" /\ type.p = "boolean" -> Bool(FALSE)
      [] type.k = "array" -> Arr(<<>>)
      [] type.k = "class" -> NewInstance(type.c)

NewInstance(cls) ==
    LET props == PropertiesOf(cls)
        names == {props[i].name : i \in DOMAIN props}
        typeOf(nm) == (CHOOSE i \in DOMAIN props : props[i].name = nm)
    IN  Obj([nm \in names |-> Initializer(props[typeOf(nm)].type)])

----------------------------------------------------------------------------
(* JsonConvert.deserializeObject under the settings of new JsonConvert():  *)
(* operationMode ENABLE, valueCheckingMode ALLOW_OBJECT_NULL,              *)
(* ignorePrimitiveChecks false, every property required.  A call either    *)
(* returns a value or throws the library's Error.                          *)

Return(v) == [ok |-> TRUE, val |-> v]
Throw(kind) == [ok |-> FALSE, error |-> kind]

\* typeof value matches the expected primitive type
PrimitiveMatches(type, value) == value.t = type.p

\* the element of a one-element set: Only({F(x) : x \in {e}}) is F(e), with e
\* evaluated once
Only(S) == CHOOSE x \in S : TRUE

\* ArrayResult filling the array from its far end
ArrayResultReversing(conv) ==
    IF \E i \in DOMAIN conv : ~conv[i].ok THEN Throw("Error")
    ELSE Return(Arr([i \in DOMAIN conv |-> conv[Len(conv) + 1 - i].val]))

\* the array of the converted elements; the first element that does not
\* convert throws
ArrayResult(conv) ==
    IF \E i \in DOMAIN conv : ~conv[i].ok THEN Throw("Error")
    ELSE Return(Arr([i \in DOMAIN conv |-> conv[i].val]))

\* a mapping given for a list: each member is converted and stored under its
\* own (non-index) key of a fresh array, whose indexed elements stay empty
MappingResult(conv) ==
    IF \E k \in DOMAIN conv : ~conv[k].ok THEN Throw("Error")
    ELSE Return(Arr(<<>>))

\* the instance with every property assigned; the first property that does
\* not convert throws
InstanceResult(props, conv) ==
    IF \E i \in DOMAIN props : ~conv[i].ok THEN Throw("Error")
    ELSE Return(Obj([nm \in {props[i].name : i \in DOMAIN props} |->
                       conv[CHOOSE i \in DOMAIN props : props[i].name = nm].val]))

RECURSIVE deserializeObject(_, _)
RECURSIVE convertProperty(_, _)

\* convertProperty(expectedType, value): type-check one JSON value and map it
convertProperty(type, value) ==
    CASE type.k = "class" /\ value.t # "array" ->
            \* a null object is let through (ALLOW_OBJECT_NULL)
            IF value.t = "null" THEN Return(Null)
            ELSE deserializeObject(value, type.c)
      [] type.k = "primitive" /\ value.t # "array" ->
            \* a null primitive is not
            IF value.t = "null" THEN Throw("Error")
            ELSE IF PrimitiveMatches(type, value) THEN Return(value)
            ELSE Throw("Error")
      [] type.k = "array" /\ value.t = "array" ->
            Only({ArrayResult(conv) : conv \in
                    {[i \in DOMAIN value.e |-> convertProperty(type.of, value.e[i])]}})
      [] type.k = "array" /\ value.t = "object" ->
            Only({MappingResult(conv) : conv \in
                    {[k \in DOMAIN value.f |-> convertProperty(type.of, value.f[k])]}})
      [] type.k = "array" /\ value.t = "null" -> Return(Null)
      [] OTHER -> Throw("Error")

\* deserializeObject_loopProperty: the value the property gets, or a throw
\* when the JSON property does not exist or does not convert
PropertyResult(prop, jsonValue) ==
    IF jsonValue.t = "undefined" THEN Throw("Error")
    ELSE convertProperty(prop.type, jsonValue)

loopProperty(prop, json) == PropertyResult(prop, GetProp(json, prop.name))

\* deserializeObject(jsonObject, classReference): a new instance of the class
\* with each decorated property read from the JSON mapping
InstanceOf(props, json) ==
    Only({InstanceResult(props, conv) : conv \in
            {[i \in DOMAIN props |-> loopProperty(props[i], json)]}})

deserializeObject(jsonObject, cls) ==
    IF jsonObject.t = "undefined" THEN Throw("Error")
    ELSE IF jsonObject.t = "null" THEN Return(Null)
    ELSE IF jsonObject.t # "object" THEN Throw("Error")
    ELSE InstanceOf(PropertiesOf(cls), jsonObject)

----------------------------------------------------------------------------
(* String.prototype.split and the Date used for the month *)

\* s.split(sep): the pieces of s between the occurrences of sep
RECURSIVE split(_, _)
split(s, sep) ==
    IF \A i \in DOMAIN s : s[i] # sep THEN <<s>>
    ELSE LET i == CHOOSE j \in DOMAIN s : s[j] = sep /\ \A k \in 1..(j - 1) : s[k] # sep
         IN  <<SubSeq(s, 1, i - 1)>> \o split(SubSeq(s, i + 1, Len(s)), sep)

Digits == <<"0", "1", "2", "3", "4", "5", "6", "7", "8", "9">>

IsDigit(c) == \E d \in DOMAIN Digits : Digits[d] = c

DigitVal(c) == (CHOOSE d \in DOMAIN Digits : Digits[d] = c) - 1

TwoDigits(s, i) == 10 * DigitVal(s[i]) + DigitVal(s[i + 1])

\* new Date(text) for the texts the inputs carry: a UTC instant written
\* YYYY-MM-DDTHH:MM:SSZ gives a valid date, any other text the invalid date
\* (NaN).  The month is the one of the instant; the inputs keep to the middle
\* of a month, where every time zone agrees on it.
NaN == [valid |-> FALSE]

DateOf(s) ==
    IF /\ Len(s) = 20
       /\ \A i \in {1, 2, 3, 4, 6, 7, 9, 10, 12, 13, 15, 16, 18, 19} : IsDigit(s[i])
       /\ s[5] = "-" /\ s[8] = "-" /\ s[11] = "T"
       /\ s[14] = ":" /\ s[17] = ":" /\ s[20] = "Z"
       /\ TwoDigits(s, 6) \in 1..12
       /\ TwoDigits(s, 9) \in 1..28
       /\ TwoDigits(s, 12) \in 0..23
       /\ TwoDigits(s, 15) \in 0..59
       /\ TwoDigits(s, 18) \in 0..59
    THEN [valid |-> TRUE, month |-> TwoDigits(s, 6)]
    ELSE NaN

MonthNames ==
    << "January", "February", "March", "April", "May", "June", "July",
       "August", "September", "October", "November", "December" >>

\* date.toLocaleString('default', {month: 'long'}) in an English locale
toLocaleString(date) ==
    IF date.valid THEN MonthNames[date.month] ELSE "Invalid Date"

----------------------------------------------------------------------------
(* EmailsController.handleEmail *)

PASS == <<"P", "A", "S", "S">>

DelayThresholdMillis == 1000

\* a variant that cuts at the last '@' instead of the first
LocalPartBeforeLastAt(email) ==
    LET parts == split(email, "@")
    IN  IF Len(parts) = 1 THEN email
        ELSE SubSeq(email, 1, Len(email) - Len(parts[Len(parts)]) - 1)

\* the part of an address before its first '@': email.split('@')[0]
LocalPart(email) == split(email, "@")[1]

\* reading a property of null or undefined throws a TypeError
CanRead(value) == value.t \notin {"null", "undefined"}

\* array[0]: undefined on an empty array
First(array) == IF Len(array.e) = 0 THEN Undefined ELSE array.e[1]

ResponseDTO(spam, virus, dns, mes, retrasado, emisor, receptor) ==
    [spam |-> spam, virus |-> virus, dns |-> dns, mes |-> mes,
     retrasado |-> retrasado, emisor |-> emisor, receptor |-> receptor]

Returned(dto) == [kind |-> "return", dto |-> dto]
Thrown(error) == [kind |-> "throw", error |-> error]

\* verdict.status === 'PASS'
IsPass(verdict) == verdict.f.status.s = PASS

\* a variant that leaves the DMARC verdict out
DnsWithoutDmarc(receipt) ==
    IsPass(receipt.f.spfVerdict) /\ IsPass(receipt.f.dkimVerdict)

\* lines 397-400; && reads dkimVerdict only when SPF passed and dmarcVerdict
\* only when DKIM passed too
Dns(receipt) ==
    /\ IsPass(receipt.f.spfVerdict)
    /\ IsPass(receipt.f.dkimVerdict)
    /\ IsPass(receipt.f.dmarcVerdict)

\* the verdict whose status lines 397-400 read off null, if any
DnsReadsNull(receipt) ==
    \/ ~CanRead(receipt.f.spfVerdict)
    \/ /\ IsPass(receipt.f.spfVerdict)
       /\ \/ ~CanRead(receipt.f.dkimVerdict)
          \/ /\ IsPass(receipt.f.dkimVerdict)
             /\ ~CanRead(receipt.f.dmarcVerdict)

\* a variant that counts the threshold itself as delayed
DelayedFromThreshold(millis) == millis >= DelayThresholdMillis

\* line 404: receipt.processingTimeMillis > 1000
Delayed(millis) == millis > DelayThresholdMillis

\* lines 390-408, on the decoded root, statement by statement
summarize(decoded) ==
    IF ~CanRead(decoded) \/ ~CanRead(decoded.f.Records) THEN Thrown("TypeError")
    ELSE LET record == First(decoded.f.Records) IN
    IF ~CanRead(record) THEN Thrown("TypeError")
    ELSE LET ses == record.f.ses IN
    IF ~CanRead(ses) THEN Thrown("TypeError")
    ELSE LET receipt == ses.f.receipt
             mail == ses.f.mail IN
    IF ~CanRead(receipt) \/ ~CanRead(receipt.f.spamVerdict) THEN Thrown("TypeError")
    ELSE LET spam == IsPass(receipt.f.spamVerdict) IN
    IF ~CanRead(receipt.f.virusVerdict) THEN Thrown("TypeError")
    ELSE LET virus == IsPass(receipt.f.virusVerdict) IN
    IF DnsReadsNull(receipt) THEN Thrown("TypeError")
    ELSE LET dns == Dns(receipt) IN
    IF ~CanRead(mail) THEN Thrown("TypeError")
    ELSE LET mes == toLocaleString(DateOf(mail.f.timestamp.s))
             retrasado == Delayed(receipt.f.processingTimeMillis.n)
             emisor == LocalPart(mail.f.source.s) IN
    IF ~CanRead(mail.f.destination) THEN Thrown("TypeError")
    ELSE LET receptor == [i \in DOMAIN mail.f.destination.e |->
                              LocalPart(mail.f.destination.e[i].s)]
         IN  Returned(ResponseDTO(spam, virus, dns, mes, retrasado, emisor, receptor))

\* lines 386-409: the decoded root (undefined when decoding threw) and what
\* the call returns or throws
Outcome(decoded) ==
    IF ~decoded.ok THEN [root |-> Undefined, result |-> Thrown(decoded.error)]
    ELSE [root |-> decoded.val, result |-> summarize(decoded.val)]

handleEmail(request) ==
    Only({Outcome(decoded) : decoded \in {deserializeObject(request, "Root")}})

----------------------------------------------------------------------------
(* The request bodies: well-formed SES notifications with the fields the   *)
(* summary reads varied, and the same with one place of the tree damaged.  *)

MaxRecords == 2
MaxDest == 2
MaxAddrLen == 2

FAIL == <<"F", "A", "I", "L">>
LowerPass == <<"p", "a", "s", "s">>
TsMarch ==
    << "2", "0", "2", "4", "-", "0", "3", "-", "1", "5", "T",
       "1", "0", ":", "0", "0", ":", "0", "0", "Z" >>
TsNovember ==
    << "2", "0", "2", "3", "-", "1", "1", "-", "2", "0", "T",
       "0", "8", ":", "3", "0", ":", "0", "0", "Z" >>
TsMonth13 ==
    << "2", "0", "2", "4", "-", "1", "3", "-", "1", "5", "T",
       "1", "0", ":", "0", "0", ":", "0", "0", "Z" >>

Statuses == {PASS, FAIL, LowerPass, <<>>}
Timestamps == {TsMarch, TsNovember, TsMonth13, <<>>, <<"x">>}
Millis == {0, 999, DelayThresholdMillis, DelayThresholdMillis + 1, 5000}

\* the texts of at most n characters over 'a' and '@'
RECURSIVE TextsUpTo(_)
TextsUpTo(n) ==
    IF n = 0 THEN {<<>>}
    ELSE LET shorter == TextsUpTo(n - 1)
         IN  shorter \cup {Append(x, c) : x \in shorter, c \in {"a", "@"}}

Addresses == TextsUpTo(MaxAddrLen)

\* the lists of at most n elements of S
RECURSIVE ListsUpTo(_, _)
ListsUpTo(S, n) ==
    IF n = 0 THEN {<<>>}
    ELSE LET shorter == ListsUpTo(S, n - 1)
         IN  shorter \cup {Append(l, x) : l \in shorter, x \in S}

AliceAddr == <<"a", "@", "b">>
BobAddr == <<"b", "@", "c">>
CarolAddr == <<"c", "@", "d", "@", "e">>

StrList(texts) == Arr([i \in DOMAIN texts |-> Str(texts[i])])

MkVerdict(status) == Obj([status |-> Str(status)])

MkHeader(name, value) == Obj([name |-> Str(name), value |-> Str(value)])

\* a complete, well-typed Record carrying the given values
MkRecord(p) ==
    Obj([eventVersion |-> Str(<<"1", ".", "0">>),
         eventSource |-> Str(<<"s", "e", "s">>),
         ses |-> Obj([
           receipt |-> Obj([
             timestamp |-> Str(p.timestamp),
             processingTimeMillis |-> Num(p.millis),
             recipients |-> StrList(p.destination),
             spamVerdict |-> MkVerdict(p.spam),
             virusVerdict |-> MkVerdict(p.virus),
             spfVerdict |-> MkVerdict(p.spf),
             dkimVerdict |-> MkVerdict(p.dkim),
             dmarcVerdict |-> MkVerdict(p.dmarc),
             dmarcPolicy |-> Str(<<"r">>),
             action |-> Obj([type |-> Str(<<"S", "N", "S">>),
                             topicArn |-> Str(<<"t">>)])]),
           mail |-> Obj([
             timestamp |-> Str(p.timestamp),
             source |-> Str(p.source),
             messageId |-> Str(<<"m">>),
             destination |-> StrList(p.destination),
             headersTruncated |-> Bool(TRUE),
             headers |-> Arr(<<MkHeader(<<"F">>, p.source), MkHeader(<<"S">>, <<"h">>)>>),
             commonHeaders |-> Obj([
               returnPath |-> Str(p.source),
               from |-> StrList(<<p.source>>),
               date |-> Str(<<"d">>),
               to |-> StrList(p.destination),
               messageId |-> Str(<<"m">>),
               subject |-> Str(<<"h">>)])])])])

MkBody(records) == Obj([Records |-> Arr(records)])

BaseParams ==
    [spam |-> PASS, virus |-> FAIL, spf |-> PASS, dkim |-> PASS, dmarc |-> PASS,
     millis |-> 500, timestamp |-> TsMarch, source |-> AliceAddr,
     destination |-> <<BobAddr, CarolAddr>>]

BaseRecord == MkRecord(BaseParams)

\* a second well-formed record, with SPF failing and a slow delivery
AltRecord ==
    MkRecord([BaseParams EXCEPT !.spf = FAIL, !.spam = FAIL, !.millis = 5000,
                                !.timestamp = TsNovember, !.source = BobAddr,
                                !.destination = <<AliceAddr>>])

(* Places of a JSON tree: a path is a sequence of property names, an array  *)
(* index being written as the property name JavaScript gives it.            *)
IndexKeys == <<"0", "1", "2", "3", "4", "5">>

ArrayIndex(step) == CHOOSE i \in DOMAIN IndexKeys : IndexKeys[i] = step

IsIndexKey(step) == \E i \in DOMAIN IndexKeys : IndexKeys[i] = step

RECURSIVE PathsOf(_)
PathsOf(value) ==
    CASE value.t = "object" ->
            UNION {{<<k>>} \cup {<<k>> \o q : q \in PathsOf(value.f[k])} : k \in DOMAIN value.f}
      [] value.t = "array" ->
            UNION {{<<IndexKeys[i]>>} \cup {<<IndexKeys[i]>> \o q : q \in PathsOf(value.e[i])}
                   : i \in DOMAIN value.e}
      [] OTHER -> {}

\* the value at a path; undefined where the path leaves the tree
RECURSIVE At(_, _)
At(value, path) ==
    IF path = <<>> THEN value
    ELSE IF value.t = "object" THEN
        IF Head(path) \in DOMAIN value.f THEN At(value.f[Head(path)], Tail(path))
        ELSE Undefined
    ELSE IF value.t = "array" THEN
        IF IsIndexKey(Head(path)) /\ ArrayIndex(Head(path)) \in DOMAIN value.e
        THEN At(value.e[ArrayIndex(Head(path))], Tail(path))
        ELSE Undefined
    ELSE Undefined

Kinds == {"missing", "null", "wrong", "list", "mapping", "extra"}

\* a value of another shape than the one given
WrongShape(value) ==
    CASE value.t = "string" -> Num(7)
      [] value.t = "number" -> Str(<<"5", "0", "0">>)
      [] value.t = "boolean" -> Str(<<"t", "r", "u", "e">>)
      [] OTHER -> Str(<<"x">>)

Damaged(value, kind) ==
    CASE kind = "null" -> Null
      [] kind = "wrong" -> WrongShape(value)
      [] kind = "list" -> Arr(<<>>)
      [] kind = "mapping" -> Obj([k |-> Str(<<"x">>)])
      [] kind = "extra" -> SetProp(value, "unknown", Num(1))

\* the kinds of damage a place can take: a key can be missing only from a
\* mapping, and a replacement has to change the shape
Applies(value, path, kind) ==
    CASE kind = "missing" -> ~IsIndexKey(path[Len(path)])
      [] kind = "list" -> At(value, path).t # "array"
      [] kind = "mapping" -> At(value, path).t = "array"
      [] kind = "extra" -> At(value, path).t = "object"
      [] OTHER -> TRUE

\* the tree with the place at path damaged: its key removed from the mapping
\* that holds it ("missing"), or its value replaced
RECURSIVE Damage(_, _, _)
Damage(value, path, kind) ==
    IF path = <<>> THEN Damaged(value, kind)
    ELSE IF value.t = "object" THEN
        IF Len(path) = 1 /\ kind = "missing"
        THEN Obj([k \in (DOMAIN value.f) \ {Head(path)} |-> value.f[k]])
        ELSE Obj([k \in DOMAIN value.f |->
                    IF k = Head(path) THEN Damage(value.f[k], Tail(path), kind)
                    ELSE value.f[k]])
    ELSE Arr([i \in DOMAIN value.e |->
                IF i = ArrayIndex(Head(path)) THEN Damage(value.e[i], Tail(path), kind)
                ELSE value.e[i]])

Damages(value) ==
    {d \in PathsOf(value) \X Kinds : Applies(value, d[1], d[2])}

DamagedRecords(record) ==
    {Damage(record, d[1], d[2]) : d \in Damages(record)}

VerdictBodies ==
    {MkBody(<<MkRecord([BaseParams EXCEPT !.spam = sv[1], !.virus = sv[2],
                           !.spf = dns[1], !.dkim = dns[2], !.dmarc = dns[3]])>>) :
        sv \in {PASS, FAIL} \X {PASS, FAIL},
        dns \in Statuses \X Statuses \X Statuses}

TimingBodies ==
    {MkBody(<<MkRecord([BaseParams EXCEPT !.millis = m, !.timestamp = ts])>>) :
        m \in Millis, ts \in Timestamps}

AddressBodies ==
    {MkBody(<<MkRecord([BaseParams EXCEPT !.source = a])>>) : a \in Addresses}
    \cup {MkBody(<<MkRecord([BaseParams EXCEPT !.destination = d])>>) :
            d \in ListsUpTo(Addresses, MaxDest)}

DamagedBodies ==
    {MkBody(<<r>>) : r \in DamagedRecords(BaseRecord) \cup DamagedRecords(AltRecord)}

\* what may follow Records[0]: well-formed records and malformed ones
TrailingRecords ==
    {BaseRecord, AltRecord, Null, Num(1),
     Damage(BaseRecord, <<"ses", "mail">>, "missing"),
     Damage(AltRecord, <<"ses", "receipt", "processingTimeMillis">>, "wrong")}

MultiRecordBodies ==
    {MkBody(<<first>> \o rest) :
        first \in {BaseRecord, AltRecord,
                   Damage(BaseRecord, <<"ses", "mail", "source">>, "missing")},
        rest \in ListsUpTo(TrailingRecords, MaxRecords - 1)}

\* requests whose Records is empty, or that are not a mapping with a list
ShapelessBodies ==
    {MkBody(<<>>), MkBody(<<Null>>), Obj(EmptyFields), Arr(<<>>),
     Obj([Records |-> Null]), Obj([Records |-> Num(1)]),
     Obj([Records |-> Obj(EmptyFields)]),
     SetProp(MkBody(<<BaseRecord>>), "unknown", Num(1))}

Bodies ==
    VerdictBodies \cup TimingBodies \cup AddressBodies \cup DamagedBodies
        \cup MultiRecordBodies \cup ShapelessBodies

----------------------------------------------------------------------------
(* The state machine: one request, handled once *)

NoResult == [kind |-> "none"]

Init ==
    /\ body \in Bodies
    /\ pc = "request"
    /\ root = Undefined
    /\ result = NoResult

\* POST /emails: the whole of handleEmail on the request body
HandleEmail ==
    /\ pc = "request"
    /\ \E call \in {handleEmail(body)} :
          /\ root' = call.root
          /\ result' = call.result
    /\ pc' = "response"
    /\ UNCHANGED body

Next == HandleEmail

Spec == Init /\ [][Next]_vars

----------------------------------------------------------------------------
(* Vocabulary of the properties *)

Responded == pc = "response"

Summarized == Responded /\ result.kind = "return"

\* the request is a mapping whose Records is a list with at least one element
HasRecords(request) ==
    /\ request.t = "object"
    /\ "Records" \in DOMAIN request.f
    /\ request.f.Records.t = "array"
    /\ Len(request.f.Records.e) >= 1

\* the JSON value has every declared key, each of the declared shape
RECURSIVE Conforms(_, _)
Conforms(type, value) ==
    CASE type.k = "primitive" -> value.t = type.p
      [] type.k = "class" ->
            /\ value.t = "object"
            /\ \A i \in DOMAIN PropertiesOf(type.c) :
                  LET prop == PropertiesOf(type.c)[i]
                  IN  /\ prop.name \in DOMAIN value.f
                      /\ Conforms(prop.type, value.f[prop.name])
      [] type.k = "array" ->
            /\ value.t = "array"
            /\ \A i \in DOMAIN value.e : Conforms(type.of, value.e[i])

\* out is what the permissive decoding of the specification yields for the
\* JSON value in: the value itself where it has the declared shape, the
\* default ('' / 0 / false / [] / all-default instance) where it is missing,
\* null or of another shape; a list keeps its length and order
RECURSIVE Absorbed(_, _, _)
Absorbed(type, in, out) ==
    CASE type.k = "primitive" ->
            IF in.t = type.p THEN out = in ELSE out = Initializer(type)
      [] type.k = "class" ->
            IF in.t = "object"
            THEN /\ out.t = "object"
                 /\ \A i \in DOMAIN PropertiesOf(type.c) :
                       LET prop == PropertiesOf(type.c)[i]
                       IN  Absorbed(prop.type, GetProp(in, prop.name), out.f[prop.name])
            ELSE out = NewInstance(type.c)
      [] type.k = "array" ->
            IF in.t = "array"
            THEN /\ out.t = "array"
                 /\ Len(out.e) = Len(in.e)
                 /\ \A i \in DOMAIN in.e : Absorbed(type.of, in.e[i], out.e[i])
            ELSE out = Arr(<<>>)

\* as Conforms, but a list field may be absent and the elements of a list
\* may be anything
RECURSIVE ConformsButLists(_, _)
ConformsButLists(type, value) ==
    CASE type.k = "primitive" -> value.t = type.p
      [] type.k = "class" ->
            /\ value.t = "object"
            /\ \A i \in DOMAIN PropertiesOf(type.c) :
                  LET prop == PropertiesOf(type.c)[i]
                  IN  IF prop.type.k = "array"
                      THEN GetProp(value, prop.name).t \in {"undefined", "array"}
                      ELSE /\ prop.name \in DOMAIN value.f
                           /\ ConformsButLists(prop.type, value.f[prop.name])
      [] type.k = "array" -> TRUE

\* the records after the first are complete and well-typed
TrailingRecordsConform(request) ==
    \A i \in 2..Len(request.f.Records.e) :
        Conforms(Class("Record"), request.f.Records.e[i])

FirstRecordPath == <<"Records", "0">>
ReceiptPath == FirstRecordPath \o <<"ses", "receipt">>
MailPath == FirstRecordPath \o <<"ses", "mail">>

\* the status the request gives a verdict of Records[0]; the empty text when
\* the verdict or its status is not there
InputStatus(verdict) ==
    LET x == At(body, ReceiptPath \o <<verdict, "status">>)
    IN  IF x.t = "string" THEN x.s ELSE <<>>

\* the processing time the request gives; 0 when it is not there
InputMillis ==
    LET x == At(body, ReceiptPath \o <<"processingTimeMillis">>)
    IN  IF x.t = "number" THEN x.n ELSE 0

\* p is s up to its first '@', or all of s when s has none
IsLocalPartOf(p, s) ==
    /\ Len(p) <= Len(s)
    /\ \A i \in DOMAIN p : p[i] = s[i] /\ p[i] # "@"
    /\ Len(p) = Len(s) \/ s[Len(p) + 1] = "@"

\* the plain tree of a decoded instance: each property under its JSON name
RECURSIVE serializeObject(_, _)
RECURSIVE serializeProperty(_, _)
serializeProperty(type, value) ==
    CASE value.t = "null" -> Null
      [] type.k = "class" -> serializeObject(value, type.c)
      [] type.k = "array" ->
            Arr([i \in DOMAIN value.e |-> serializeProperty(type.of, value.e[i])])
      [] OTHER -> value

serializeObject(instance, cls) ==
    LET props == PropertiesOf(cls)
    IN  Obj([nm \in {props[i].name : i \in DOMAIN props} |->
               LET prop == props[CHOOSE i \in DOMAIN props : props[i].name = nm]
               IN  serializeProperty(prop.type, instance.f[nm])])

----------------------------------------------------------------------------
(* The properties *)

\* C1: for a request with at least one record, a missing key, a null or a
\* wrong-shape value anywhere inside Records[0] never aborts the decoding:
\* the decode completes and the affected field holds its documented default.
C1_DamageInsideFirstRecordIsAbsorbed ==
    (/\ Responded
     /\ HasRecords(body)
     /\ body.f.Records.e[1].t = "object"
     /\ TrailingRecordsConform(body))
    => /\ root.t = "object"
       /\ Absorbed(Class("Record"), body.f.Records.e[1], root.f.Records.e[1])

\* C2: when the decoded Records list is empty, handleEmail returns no summary
\* and fails with the failure kind EmptyRecordSet.
C2_EmptyRecordsFailsAsEmptyRecordSet ==
    (/\ Responded
     /\ root.t = "object"
     /\ root.f.Records.t = "array"
     /\ Len(root.f.Records.e) = 0)
    => result = Thrown("EmptyRecordSet")

\* C3: when Records[0].ses.mail.timestamp does not parse as a date, no
\* summary is returned: the failure InvalidTimestamp is surfaced instead.
C3_InvalidTimestampFailsAsInvalidTimestamp ==
    (/\ Responded
     /\ HasRecords(body)
     /\ Conforms(Class("Root"), body)
     /\ ~DateOf(At(body, MailPath \o <<"timestamp">>).s).valid)
    => result = Thrown("InvalidTimestamp")

\* C4: in every summary, dns is true exactly when the spfVerdict, dkimVerdict
\* and dmarcVerdict statuses of Records[0].ses.receipt all equal "PASS"; a
\* verdict the request does not carry counts as the empty text.
C4_DnsIffAllThreePass ==
    Summarized =>
        (result.dto.dns <=>
            \A v \in {"spfVerdict", "dkimVerdict", "dmarcVerdict"} : InputStatus(v) = PASS)

C4_Witness ==
    /\ Summarized
    /\ ~result.dto.dns
    /\ InputStatus("spfVerdict") = PASS
    /\ InputStatus("dkimVerdict") = PASS
    /\ InputStatus("dmarcVerdict") = FAIL

\* C5: in every summary, retrasado is true exactly when processingTimeMillis
\* is strictly greater than 1000: 1000 gives false, 1001 gives true.
C5_DelayedIffAboveThousand ==
    Summarized =>
        /\ result.dto.retrasado <=> InputMillis >= 1001
        /\ InputMillis = 1000 => ~result.dto.retrasado

C5_Witness ==
    Summarized /\ InputMillis = 1001 /\ result.dto.retrasado

\* C6: in every summary, receptor has the length of mail.destination and its
\* i-th element is the i-th address up to its first '@' (the whole address
\* when it has none); emisor is mail.source cut the same way.
C6_LocalParts ==
    Summarized =>
        LET mail == root.f.Records.e[1].f.ses.f.mail
        IN  /\ Len(result.dto.receptor) = Len(mail.f.destination.e)
            /\ \A i \in DOMAIN mail.f.destination.e :
                  IsLocalPartOf(result.dto.receptor[i], mail.f.destination.e[i].s)
            /\ IsLocalPartOf(result.dto.emisor, mail.f.source.s)

C6_Witness ==
    /\ Summarized
    /\ At(body, MailPath \o <<"destination">>) =
          Arr(<<Str(<<"@", "@">>), Str(<<"a", "@">>)>>)
    /\ result.dto.receptor = << <<>>, <<"a">> >>

\* C7: when the mail object is absent from Records[0].ses, decoding still
\* succeeds and yields an all-default Mail, so that the sender is "" and the
\* recipients are [].
C7_AbsentMailDecodesToDefaultMail ==
    (/\ Responded
     /\ HasRecords(body)
     /\ TrailingRecordsConform(body)
     /\ At(body, FirstRecordPath \o <<"ses">>).t = "object"
     /\ At(body, MailPath).t = "undefined"
     /\ Conforms(Class("Record"),
                 SetProp(body.f.Records.e[1], "ses",
                         SetProp(body.f.Records.e[1].f.ses, "mail", At(BaseRecord, <<"ses", "mail">>)))))
    => /\ root.t = "object"
       /\ root.f.Records.e[1].f.ses.f.mail = NewInstance("Mail")
       /\ result.kind = "return" =>
             result.dto.emisor = <<>> /\ result.dto.receptor = <<>>

\* C8: for every list field, decoding with the field absent yields an empty
\* list, and decoding a list that mixes valid and invalid elements yields a
\* list of the same length and order with each invalid element replaced by
\* its default.
C8_ListFieldsAbsorbDamage ==
    (/\ Responded
     /\ HasRecords(body)
     /\ TrailingRecordsConform(body)
     /\ ConformsButLists(Class("Record"), body.f.Records.e[1]))
    => /\ root.t = "object"
       /\ Absorbed(Class("Record"), body.f.Records.e[1], root.f.Records.e[1])

\* C9: the outcome depends only on Records[0]: whatever follows it, the call
\* gives what it gives on the request that holds Records[0] alone.
C9_OutcomeDependsOnFirstRecordOnly ==
    (Responded /\ HasRecords(body))
    => result = handleEmail(MkBody(<<body.f.Records.e[1]>>)).result

====
